---- MODULE Spec2Model ----
(***************************************************************************)
(* Hiraku-RAG: the ingestion coordinator (HirakuRAG.add_documents), the    *)
(* two stores it writes (DatabaseManager over SQLite, VectorStoreManager   *)
(* over a ChromaDB collection) and the query path (HirakuRAG.query and     *)
(* HirakuRAG.stream_query), as a state machine.                            *)
(*                                                                         *)
(* A path is a tuple <<directory, stem, extension>>, the stem a sequence of *)
(* characters; the directory "" is a relative path.  A file's content is   *)
(* the sequence of documents ("parts") the reader splits it into, each a   *)
(* sequence of chunk texts.                                                *)
(***************************************************************************)
EXTENDS Integers, Sequences, FiniteSets, TLC

\* ------------------------------------------------------------- bounds
MaxFiles == 2
MaxFaults == 1
MaxHistory == 7
MaxChats == 4
MaxSession == 54

\* ------------------------------------------------------------- universe
Procs == {1, 2}
Usernames == {"alice", "bob"}
NoUser == "-"
Cwd == "/w"

PathA == <<"/w", <<"a">>, ".txt">>
PathARel == <<"", <<"a">>, ".txt">>
PathB == <<"/w", <<"b">>, ".pdf">>
PathC == <<"/w", <<"c">>, ".exe">>
RawPaths == {PathA, PathARel, PathB, PathC}

\* Path(file_path).resolve(): a relative path is made absolute against the
\* working directory; an absolute one is kept.
Resolve(raw) == <<IF raw[1] = "" THEN Cwd ELSE raw[1], raw[2], raw[3]>>

CanonPaths == {Resolve(r) : r \in RawPaths}

ContentA1 == << <<<<"x">>, <<"y">>>> >>
ContentA2 == << <<<<"z">>, <<"y">>, <<"w">>>> >>
ContentB == << <<<<"u">>>>, <<<<"v">>>> >>
ContentC == << <<<<"q">>>> >>

\* The lists of 1 to n paths out of raw (the callers of add_documents hand it
\* at least one file).
RECURSIVE FileLists(_, _)
FileLists(n, raw) ==
    IF n <= 1 THEN {<<r>> : r \in raw}
    ELSE FileLists(n - 1, raw) \cup
         {Append(l, r) : l \in {m \in FileLists(n - 1, raw) : Len(m) = n - 1}, r \in raw}

\* ------------------------------------------------------------- text
\* A text is a sequence of one-character strings.
Whitespace == {" "}
TrailingPunctuation == {"?", "!", ".", ","}

\* str.lower(): the upper-case letters of the alphabet in use.
LowerChar(c) == IF c = "C" THEN "c" ELSE IF c = "H" THEN "h" ELSE c
Lower(s) == [k \in 1..Len(s) |-> LowerChar(s[k])]

\* str.rstrip(chars) and str.lstrip(chars).
RECURSIVE RStrip(_, _)
RStrip(s, chars) ==
    IF s # <<>> /\ s[Len(s)] \in chars THEN RStrip(SubSeq(s, 1, Len(s) - 1), chars) ELSE s

RECURSIVE LStrip(_, _)
LStrip(s, chars) ==
    IF s # <<>> /\ s[1] \in chars THEN LStrip(Tail(s), chars) ELSE s

\* str.strip(): white space is removed at both ends.
Strip(s) == LStrip(RStrip(s, Whitespace), Whitespace)

\* str.split(): the maximal runs of characters that are not white space.
RECURSIVE Split(_)
Split(s) ==
    LET t == LStrip(s, Whitespace)
        n == IF \E k \in 1..Len(t) : t[k] \in Whitespace
             THEN (CHOOSE k \in 1..Len(t) :
                      t[k] \in Whitespace /\ \A j \in 1..(k - 1) : t[j] \notin Whitespace) - 1
             ELSE Len(t)
    IN IF t = <<>> THEN <<>>
       ELSE <<SubSeq(t, 1, n)>> \o Split(SubSeq(t, n + 1, Len(t)))

\* word in text: word occurs in text as a substring.
Contains(text, word) ==
    \E k \in 0..(Len(text) - Len(word)) : SubSeq(text, k + 1, k + Len(word)) = word

\* Lines 261 and 355: question.lower().strip().rstrip("?!.,")
Normalize(question) == RStrip(Strip(Lower(question)), TrailingPunctuation)

\* ------------------------------------------------------------- chunker
RequiredExts == {".txt", ".pdf", ".md", ".json", ".csv"}

\* DocumentProcessor._should_process_file: hidden names and extensions
\* outside required_exts are not processed.
should_process_file(path) ==
    /\ ~(Len(path[2]) > 0 /\ path[2][1] = ".")
    /\ path[3] \in RequiredExts

\* SimpleDirectoryReader(filename_as_id=True): the id of the part-th
\* document of a file is derived from the file's path and the part number.
DocId(path, part) == <<path, part>>

\* DocumentProcessor.process_file on a readable file: one processed document
\* per part; a part whose node parsing raised (bad) carries
\* processing_status "error" and no chunks.
process_file(path, content, bad) ==
    IF ~should_process_file(path) THEN <<>>
    ELSE [k \in 1..Len(content) |->
            [doc_id |-> DocId(path, k - 1),
             file_path |-> path,
             processing_status |-> IF k \in bad THEN "error" ELSE "success",
             chunks |-> IF k \in bad THEN <<>> ELSE content[k]]]

VARIABLES
    fs,          \* the files on disk: canonical path -> content
    db,          \* the Metadata Store of each database file: documents, chunks
    chroma,      \* the Vector Index: namespace -> the records of its collection
    ing,         \* each caller's add_documents activation
    faultsLeft,  \* failures the environment may still inject
    placed,      \* history: <<user, chunk id, caller>> for every chunk put in a batch
    qry,         \* each caller's query or stream_query activation
    precision_mode,  \* the precision mode of each user's orchestrator
    set_mode_raised, \* each user's last set_precision_mode call raised ValueError
    user_chats       \* the rows of one chat session in user_chats, by id

vars == <<fs, db, chroma, ing, faultsLeft, placed, qry, precision_mode, set_mode_raised,
          user_chats>>
qvars == <<qry, precision_mode, set_mode_raised, user_chats>>
mvars == <<precision_mode, set_mode_raised, user_chats>>
ivars == <<fs, db, chroma, ing, placed>>

\* ------------------------------------------------------------- stores
\* chunk_id = f"{doc_id}_chunk_{i}" (line 191): the document and the index.
ChunkIdByRowCount(doc_id, i) ==
    <<doc_id, i + Cardinality(UNION {db[f].chunks : f \in DOMAIN db})>>

ChunkId(doc_id, i) == <<doc_id, i>>

\* HirakuRAG.__init__: the per-user database file.
DbPath(username) == <<"private", "users", username, "chats", "rag.db">>

\* HirakuRAG.__init__ and VectorStoreManager.__init__: the per-user persist
\* directory and the per-user collection name.
VectorNamespaceShared(username) == <<"private", "vectordb", "documents">>

VectorNamespace(username) ==
    <<"private", "users", username, "vectordb", username, "_documents">>

DbPaths == {DbPath(u) : u \in Usernames}
Namespaces == {VectorNamespace(u) : u \in Usernames}

EmptyDb == [documents |-> {}, chunks |-> {}]

\* DatabaseManager.add_document: INSERT OR REPLACE by primary key id.
add_document_none(d, doc) == d

add_document(d, doc) ==
    [d EXCEPT !.documents =
        {r \in @ : r.id # doc.doc_id} \cup
        {[id |-> doc.doc_id, filepath |-> doc.file_path]}]

\* DatabaseManager.get_chunk_metadata: the rows with this id (none or one).
get_chunk_metadata(d, chunk_id) == {r \in d.chunks : r.id = chunk_id}

\* The chunks table's PRIMARY KEY constraint on id.
PrimaryKeyConflictNever(d, chunk_id) == FALSE

PrimaryKeyConflict(d, chunk_id) == \E r \in d.chunks : r.id = chunk_id

ChunkRow(chunk_id, doc_id, content, i) ==
    [id |-> chunk_id, document_id |-> doc_id, content |-> content, chunk_index |-> i]

\* DatabaseManager.add_chunk, the insert having passed the constraint; a row
\* of the same id (only without the constraint) is replaced.
add_chunk(d, row) ==
    [d EXCEPT !.chunks = {r \in @ : r.id # row.id} \cup {row}]

\* Collection.add: the records of the batch are added; a record whose id the
\* collection already holds is left as it is.
CollectionAdd(coll, batch, username) ==
    coll \cup {[id |-> b.id, text |-> b.content, document_id |-> b.document_id,
                chunk_index |-> b.chunk_index, source |-> b.source, by |-> username]
               : b \in {batch[k] : k \in 1..Len(batch)} \
                       {c \in {batch[k] : k \in 1..Len(batch)} :
                            \E v \in coll : v.id = c.id}}

Ids(rows) == {r.id : r \in rows}

\* VectorStoreManager.has_document (chunk-level use: contains(id)).
has_document(coll, id) == \E v \in coll : v.id = id

\* DatabaseManager.get_document_by_path: the document rows of this filepath.
get_document_by_path(d, path) == {r \in d.documents : r.filepath = path}

\* ------------------------------------------------------------- add_documents
\* An activation of add_documents (or of reset).  errors counts the errors the
\* call has logged.  The fields from had_all on are history.  Of the call:
\* had_all, every chunk of every listed file had its row when the call began;
\* after_reset, the call began on stores emptied since the listed files were
\* ingested;
\* rows_added and vecs_added, the call inserted a chunk row, a vector record;
\* failed_docs, counted_docs, written_docs and vec_failed_docs, the documents
\* the chunker failed on, those counted in successful_files, those some store
\* was written for and those whose batch write failed.  Of the current file:
\* skippable, its path had a document row with every chunk in the Vector Index
\* when it was reached; chunker_called; chunker_failed, the chunker raised or
\* gave no document but failed ones; file_wrote, a store was written;
\* file_counted, successful_files went up.
IdleIng ==
    [pc |-> "idle", user |-> NoUser, file_paths |-> <<>>, idx |-> 0,
     processed_paths |-> {}, total_chunks |-> 0, successful_files |-> 0,
     errors |-> 0, docs |-> <<>>, i |-> 0, batch |-> <<>>,
     had_all |-> FALSE, rows_added |-> FALSE, vecs_added |-> FALSE,
     failed_docs |-> {}, counted_docs |-> {}, written_docs |-> {},
     vec_failed_docs |-> {},
     skippable |-> FALSE, chunker_called |-> FALSE, chunker_failed |-> FALSE,
     file_wrote |-> FALSE, file_counted |-> FALSE, after_reset |-> FALSE]

\* The chunk ids the chunker gives a file of this content.
ChunkIdsOf(path, content) ==
    IF ~should_process_file(path) THEN {}
    ELSE UNION {{ChunkId(DocId(path, k - 1), i - 1) : i \in 1..Len(content[k])} :
                   k \in 1..Len(content)}

\* The cross-run dedup condition of a path: it has a document row, and such a
\* document has chunk rows, every one with its record in the Vector Index.
CrossRunSkippable(d, coll, path) ==
    /\ get_document_by_path(d, path) # {}
    /\ \A r \in get_document_by_path(d, path) :
          /\ \E c \in d.chunks : c.document_id = r.id
          /\ \A c \in d.chunks : c.document_id = r.id => has_document(coll, c.id)

InCall(p) == ing[p].pc \notin {"idle", "raised", "reset_raised"}
InQuery(p) == qry[p].pc # "idle"

\* History: both stores of the user are empty although the chunks of every
\* listed file were ingested before (a reset has emptied the stores since).
AfterReset(u, fl) ==
    /\ db[DbPath(u)] = EmptyDb
    /\ chroma[VectorNamespace(u)] = {}
    /\ \A k \in 1..Len(fl) :
          /\ ChunkIdsOf(Resolve(fl[k]), fs[Resolve(fl[k])]) # {}
          /\ \A id \in ChunkIdsOf(Resolve(fl[k]), fs[Resolve(fl[k])]) :
                \E t \in placed : t[1] = u /\ t[2] = id

\* add_documents is called: lines 159-161.
StartIngest(p, u, fl) ==
    /\ ~InCall(p)
    /\ ~InQuery(p)
    /\ ing' = [ing EXCEPT ![p] =
                 [IdleIng EXCEPT
                    !.pc = "next_file", !.user = u, !.file_paths = fl, !.idx = 1,
                    !.had_all =
                        \A k \in 1..Len(fl) :
                            ChunkIdsOf(Resolve(fl[k]), fs[Resolve(fl[k])])
                                \subseteq Ids(db[DbPath(u)].chunks),
                    !.after_reset = AfterReset(u, fl)]]
    /\ UNCHANGED <<qvars, fs, db, chroma, faultsLeft, placed>>

\* The handler of the per-file try (lines 248-249): the error is logged and the
\* loop goes on with the next file.
OnFileExceptionReraise(r) == [r EXCEPT !.pc = "raised"]

OnFileException(r) ==
    [r EXCEPT !.pc = "next_file", !.idx = @ + 1, !.errors = @ + 1,
              !.docs = <<>>, !.batch = <<>>]

\* The loop is over: the summary is logged (lines 251-253) and the call returns
\* nothing; its locals are gone.
Finish(p) ==
    /\ ing[p].pc = "next_file"
    /\ ing[p].idx > Len(ing[p].file_paths)
    /\ ing' = [ing EXCEPT ![p] = IdleIng]
    /\ UNCHANGED <<qvars, fs, db, chroma, faultsLeft, placed>>

CurrentPath(r) == Resolve(r.file_paths[r.idx])

AtFile(p) ==
    /\ ing[p].pc = "next_file"
    /\ ing[p].idx <= Len(ing[p].file_paths)

\* The history of the current file, as the loop reaches a file.
AtNewFile(r) ==
    [r EXCEPT !.skippable = CrossRunSkippable(db[DbPath(r.user)],
                                              chroma[VectorNamespace(r.user)],
                                              CurrentPath(r)),
              !.chunker_called = FALSE, !.chunker_failed = FALSE,
              !.file_wrote = FALSE, !.file_counted = FALSE]

\* Lines 165-168: a path already processed in this call is skipped.
ReprocessPath(p) ==
    /\ AtFile(p)
    /\ CurrentPath(ing[p]) \in ing[p].processed_paths
    /\ ing' = [ing EXCEPT ![p] =
                 [AtNewFile(@) EXCEPT
                    !.docs = process_file(CurrentPath(ing[p]), fs[CurrentPath(ing[p])], {}),
                    !.pc = "next_doc", !.chunker_called = TRUE]]
    /\ UNCHANGED <<qvars, fs, db, chroma, faultsLeft, placed>>

SkipProcessedPath(p) ==
    /\ AtFile(p)
    /\ CurrentPath(ing[p]) \in ing[p].processed_paths
    /\ ing' = [ing EXCEPT ![p] = [AtNewFile(@) EXCEPT !.idx = @ + 1]]
    /\ UNCHANGED <<qvars, fs, db, chroma, faultsLeft, placed>>

\* Lines 165-172: the path is recorded and the chunker is invoked; bad are the
\* parts whose node parsing fails.
ProcessFile(p, bad) ==
    /\ AtFile(p)
    /\ CurrentPath(ing[p]) \notin ing[p].processed_paths
    /\ bad \subseteq 1..Len(fs[CurrentPath(ing[p])])
    /\ Cardinality(bad) <= faultsLeft
    /\ faultsLeft' = faultsLeft - Cardinality(bad)
    /\ LET path == CurrentPath(ing[p])
           docs == process_file(path, fs[path], bad)
       IN ing' = [ing EXCEPT ![p] =
                    [AtNewFile(@) EXCEPT
                       !.processed_paths = @ \cup {path},
                       !.docs = docs,
                       !.pc = "next_doc",
                       !.chunker_called = TRUE,
                       !.chunker_failed =
                           /\ docs # <<>>
                           /\ \A j \in 1..Len(docs) : docs[j].processing_status # "success",
                       !.failed_docs = @ \cup
                           {docs[k].doc_id : k \in {j \in 1..Len(docs) :
                               docs[j].processing_status # "success"}}]]
    /\ UNCHANGED <<qvars, fs, db, chroma, placed>>

\* Lines 165-172 and 248: the chunker raises (an unreadable file).
ProcessFileRaises(p) ==
    /\ AtFile(p)
    /\ CurrentPath(ing[p]) \notin ing[p].processed_paths
    /\ faultsLeft > 0
    /\ faultsLeft' = faultsLeft - 1
    /\ ing' = [ing EXCEPT ![p] =
                 OnFileException(
                     [AtNewFile(@) EXCEPT
                        !.processed_paths = @ \cup {CurrentPath(ing[p])},
                        !.chunker_called = TRUE,
                        !.chunker_failed = TRUE])]
    /\ UNCHANGED <<qvars, fs, db, chroma, placed>>

\* Line 174: no document of the file is left.
EndOfDocs(p) ==
    /\ ing[p].pc = "next_doc"
    /\ ing[p].docs = <<>>
    /\ ing' = [ing EXCEPT ![p].pc = "next_file", ![p].idx = @ + 1]
    /\ UNCHANGED <<qvars, fs, db, chroma, faultsLeft, placed>>

\* Line 175.
DocSucceededAlways(doc) == TRUE

DocSucceeded(doc) == doc.processing_status = "success"

\* Lines 243-246: a document the chunker failed on is logged and left out.
DocFailed(p) ==
    /\ ing[p].pc = "next_doc"
    /\ ing[p].docs # <<>>
    /\ ~DocSucceeded(Head(ing[p].docs))
    /\ ing' = [ing EXCEPT ![p].docs = Tail(@), ![p].errors = @ + 1]
    /\ UNCHANGED <<qvars, fs, db, chroma, faultsLeft, placed>>

\* Lines 176-188: the document row is written and the batch starts empty.
AddDocument(p) ==
    /\ ing[p].pc = "next_doc"
    /\ ing[p].docs # <<>>
    /\ DocSucceeded(Head(ing[p].docs))
    /\ db' = [db EXCEPT ![DbPath(ing[p].user)] = add_document(@, Head(ing[p].docs))]
    /\ ing' = [ing EXCEPT ![p].pc = "next_chunk", ![p].i = 0, ![p].batch = <<>>,
                          ![p].file_wrote = TRUE,
                          ![p].written_docs = @ \cup {Head(ing[p].docs).doc_id}]
    /\ UNCHANGED <<qvars, fs, chroma, faultsLeft, placed>>

\* Lines 179-183 and 248: add_document raises.
AddDocumentRaises(p) ==
    /\ ing[p].pc = "next_doc"
    /\ ing[p].docs # <<>>
    /\ DocSucceeded(Head(ing[p].docs))
    /\ faultsLeft > 0
    /\ faultsLeft' = faultsLeft - 1
    /\ ing' = [ing EXCEPT ![p] = OnFileException(@)]
    /\ UNCHANGED <<qvars, fs, db, chroma, placed>>

CurrentDoc(r) == Head(r.docs)

AtChunk(p) ==
    /\ ing[p].pc = "next_chunk"
    /\ ing[p].i < Len(CurrentDoc(ing[p]).chunks)

CurrentChunkId(r) == ChunkId(CurrentDoc(r).doc_id, r.i)

\* Lines 190-201: the chunk has a row already and is skipped.
ReinsertExistingChunk(p) ==
    /\ AtChunk(p)
    /\ get_chunk_metadata(db[DbPath(ing[p].user)], CurrentChunkId(ing[p])) # {}
    /\ LET r == ing[p]
           doc == CurrentDoc(r)
           row == ChunkRow(CurrentChunkId(r), doc.doc_id, doc.chunks[r.i + 1], r.i)
       IN /\ db' = [db EXCEPT ![DbPath(r.user)] = add_chunk(@, row)]
          /\ ing' = [ing EXCEPT ![p].i = @ + 1,
                                ![p].batch = Append(@,
                                    [id |-> row.id, content |-> row.content,
                                     document_id |-> doc.doc_id, chunk_index |-> r.i,
                                     source |-> doc.file_path])]
    /\ UNCHANGED <<qvars, fs, chroma, faultsLeft, placed>>

SkipExistingChunk(p) ==
    /\ AtChunk(p)
    /\ get_chunk_metadata(db[DbPath(ing[p].user)], CurrentChunkId(ing[p])) # {}
    /\ ing' = [ing EXCEPT ![p].i = @ + 1]
    /\ UNCHANGED <<qvars, fs, db, chroma, faultsLeft, placed>>

\* Lines 190-197: the chunk has no row; the insert comes next.
ChunkIsNew(p) ==
    /\ AtChunk(p)
    /\ get_chunk_metadata(db[DbPath(ing[p].user)], CurrentChunkId(ing[p])) = {}
    /\ ing' = [ing EXCEPT ![p].pc = "add_chunk"]
    /\ UNCHANGED <<qvars, fs, db, chroma, faultsLeft, placed>>

\* Lines 194-196 and 248: get_chunk_metadata raises, which ends the file.
GetChunkMetadataRaises(p) ==
    /\ AtChunk(p)
    /\ faultsLeft > 0
    /\ faultsLeft' = faultsLeft - 1
    /\ ing' = [ing EXCEPT ![p] = OnFileException(@)]
    /\ UNCHANGED <<qvars, fs, db, chroma, placed>>

\* Lines 204-215: the row is inserted and the chunk joins the batch.
AddChunk(p) ==
    /\ ing[p].pc = "add_chunk"
    /\ ~PrimaryKeyConflict(db[DbPath(ing[p].user)], CurrentChunkId(ing[p]))
    /\ LET r == ing[p]
           doc == CurrentDoc(r)
           row == ChunkRow(CurrentChunkId(r), doc.doc_id, doc.chunks[r.i + 1], r.i)
       IN /\ db' = [db EXCEPT ![DbPath(r.user)] = add_chunk(@, row)]
          /\ ing' = [ing EXCEPT ![p].pc = "next_chunk", ![p].i = @ + 1,
                                ![p].rows_added = TRUE, ![p].file_wrote = TRUE,
                                ![p].written_docs = @ \cup {doc.doc_id},
                                ![p].batch = Append(@,
                                    [id |-> row.id, content |-> row.content,
                                     document_id |-> doc.doc_id, chunk_index |-> r.i,
                                     source |-> doc.file_path])]
          /\ placed' = placed \cup {<<r.user, row.id, p>>}
    /\ UNCHANGED <<qvars, fs, chroma, faultsLeft>>

\* Lines 216-220: the insert violates the primary key; the chunk is skipped.
AddChunkIntegrityError(p) ==
    /\ ing[p].pc = "add_chunk"
    /\ PrimaryKeyConflict(db[DbPath(ing[p].user)], CurrentChunkId(ing[p]))
    /\ ing' = [ing EXCEPT ![p].pc = "next_chunk", ![p].i = @ + 1]
    /\ UNCHANGED <<qvars, fs, db, chroma, faultsLeft, placed>>

\* Lines 221-223: the insert fails otherwise; logged, the chunk is skipped.
AddChunkFailsButBatches(p) ==
    /\ ing[p].pc = "add_chunk"
    /\ faultsLeft > 0
    /\ faultsLeft' = faultsLeft - 1
    /\ ing' = [ing EXCEPT ![p].pc = "next_chunk", ![p].i = @ + 1, ![p].errors = @ + 1,
                          ![p].batch = Append(@,
                              [id |-> CurrentChunkId(ing[p]),
                               content |-> CurrentDoc(ing[p]).chunks[ing[p].i + 1],
                               document_id |-> CurrentDoc(ing[p]).doc_id,
                               chunk_index |-> ing[p].i,
                               source |-> CurrentDoc(ing[p]).file_path])]
    /\ UNCHANGED <<qvars, fs, db, chroma, placed>>

AddChunkFails(p) ==
    /\ ing[p].pc = "add_chunk"
    /\ faultsLeft > 0
    /\ faultsLeft' = faultsLeft - 1
    /\ ing' = [ing EXCEPT ![p].pc = "next_chunk", ![p].i = @ + 1, ![p].errors = @ + 1]
    /\ UNCHANGED <<qvars, fs, db, chroma, placed>>

AtBatch(p) ==
    /\ ing[p].pc = "next_chunk"
    /\ ing[p].i >= Len(CurrentDoc(ing[p]).chunks)

\* Line 242, reached on every path through lines 226-240.
AfterDoc(r) ==
    [r EXCEPT !.successful_files = @ + 1, !.docs = Tail(@), !.pc = "next_doc",
              !.batch = <<>>, !.counted_docs = @ \cup {CurrentDoc(r).doc_id},
              !.file_counted = TRUE]

\* Line 226: no chunk was newly inserted, nothing is sent to the Vector Index.
NoBatch(p) ==
    /\ AtBatch(p)
    /\ ing[p].batch = <<>>
    /\ ing' = [ing EXCEPT ![p] = AfterDoc(@)]
    /\ UNCHANGED <<qvars, fs, db, chroma, faultsLeft, placed>>

\* Lines 226-236: the batch is written to the Vector Index.
VectorAdd(p) ==
    /\ AtBatch(p)
    /\ ing[p].batch # <<>>
    /\ chroma' = [chroma EXCEPT ![VectorNamespace(ing[p].user)] =
                     CollectionAdd(@, ing[p].batch, ing[p].user)]
    /\ ing' = [ing EXCEPT ![p] =
                 AfterDoc([@ EXCEPT !.total_chunks = @ + Len(ing[p].batch),
                                    !.vecs_added = TRUE, !.file_wrote = TRUE,
                                    !.written_docs = @ \cup {CurrentDoc(ing[p]).doc_id}])]
    /\ UNCHANGED <<qvars, fs, db, faultsLeft, placed>>

\* Lines 237-240: the batch write fails; the failure is logged.
VectorAddFails(p) ==
    /\ AtBatch(p)
    /\ ing[p].batch # <<>>
    /\ faultsLeft > 0
    /\ faultsLeft' = faultsLeft - 1
    /\ ing' = [ing EXCEPT ![p] =
                 AfterDoc([@ EXCEPT !.errors = @ + 1,
                                    !.vec_failed_docs = @ \cup {CurrentDoc(ing[p]).doc_id}])]
    /\ UNCHANGED <<qvars, fs, db, chroma, placed>>

\* The steps of add_documents when nothing fails.
IngestStep(p) ==
    \/ Finish(p)
    \/ ProcessFile(p, {})
    \/ EndOfDocs(p)
    \/ AddDocument(p)
    \/ SkipExistingChunk(p)
    \/ ChunkIsNew(p)
    \/ AddChunk(p)
    \/ NoBatch(p)
    \/ VectorAdd(p)

\* The steps in which the chunker or a store fails.
IngestFault(p) ==
    \/ \E bad \in SUBSET {1, 2} \ {{}} : ProcessFile(p, bad)
    \/ ProcessFileRaises(p)
    \/ DocFailed(p)
    \/ AddDocumentRaises(p)
    \/ GetChunkMetadataRaises(p)
    \/ AddChunkFails(p)
    \/ VectorAddFails(p)

\* The file at PathA is rewritten between calls.
EditFile ==
    /\ \A p \in Procs : ~InCall(p)
    /\ fs' = [fs EXCEPT ![PathA] = IF @ = ContentA1 THEN ContentA2 ELSE ContentA1]
    /\ UNCHANGED <<qvars, db, chroma, ing, faultsLeft, placed>>

\* ------------------------------------------------------------- reset
\* collection.delete(ids=collection.get()["ids"]): the records whose id is
\* among the ids the collection holds are deleted.
CollectionDeleteNone(coll) == coll

CollectionDeleteAll(coll) == {v \in coll : v.id \notin Ids(coll)}

\* HirakuRAG.reset, first half: VectorStoreManager.reset deletes every record
\* of the user's collection.
ResetVector(p, u) ==
    /\ ~InCall(p)
    /\ ~InQuery(p)
    /\ chroma' = [chroma EXCEPT ![VectorNamespace(u)] = CollectionDeleteAll(@)]
    /\ ing' = [ing EXCEPT ![p] = [IdleIng EXCEPT !.pc = "reset_db", !.user = u]]
    /\ UNCHANGED <<qvars, fs, db, faultsLeft, placed>>

\* VectorStoreManager.reset raises; HirakuRAG.reset logs and raises again.
ResetVectorRaises(p, u) ==
    /\ ~InCall(p)
    /\ ~InQuery(p)
    /\ faultsLeft > 0
    /\ faultsLeft' = faultsLeft - 1
    /\ ing' = [ing EXCEPT ![p] = [IdleIng EXCEPT !.pc = "reset_raised", !.user = u]]
    /\ UNCHANGED <<qvars, fs, db, chroma, placed>>

\* Second half: DatabaseManager.reset drops and recreates both tables.
ResetDbKeepsChunks(p) ==
    /\ ing[p].pc = "reset_db"
    /\ db' = [db EXCEPT ![DbPath(ing[p].user)].documents = {}]
    /\ ing' = [ing EXCEPT ![p] = IdleIng]
    /\ UNCHANGED <<qvars, fs, chroma, faultsLeft, placed>>

ResetDb(p) ==
    /\ ing[p].pc = "reset_db"
    /\ db' = [db EXCEPT ![DbPath(ing[p].user)] = EmptyDb]
    /\ ing' = [ing EXCEPT ![p] = IdleIng]
    /\ UNCHANGED <<qvars, fs, chroma, faultsLeft, placed>>

\* DatabaseManager.reset raises; HirakuRAG.reset logs and raises again.
ResetDbRaises(p) ==
    /\ ing[p].pc = "reset_db"
    /\ faultsLeft > 0
    /\ faultsLeft' = faultsLeft - 1
    /\ ing' = [ing EXCEPT ![p].pc = "reset_raised"]
    /\ UNCHANGED <<qvars, fs, db, chroma, placed>>

\* ------------------------------------------------------------- query
Modes == {"accurate", "interactive", "flexible"}

\* self.system_messages: one instruction text per mode.
SystemMessageSame(mode) == <<"S">>

SystemMessage(mode) ==
    CASE mode = "accurate" -> <<"S", "a">>
      [] mode = "interactive" -> <<"S", "i">>
      [] mode = "flexible" -> <<"S", "f">>

\* The answer of the except clauses (lines 346 and 421).
ErrorAnswer == <<"E", "r", "r">>

RECURSIVE Concat(_)
Concat(texts) == IF texts = <<>> THEN <<>> ELSE Head(texts) \o Concat(Tail(texts))

\* "\n\n".join(relevant_docs)
RECURSIVE Join(_)
Join(texts) ==
    IF texts = <<>> THEN <<>>
    ELSE IF Len(texts) = 1 THEN texts[1]
    ELSE texts[1] \o <<"/">> \o Join(Tail(texts))

HistoryWindow == 6
MaxRelevant == 3

\* history[-6:]
LastN(history, n) ==
    IF Len(history) <= n THEN history ELSE SubSeq(history, Len(history) - n + 1, Len(history))

\* Lines 283-286: some word of the normalized question occurs in the lower-cased
\* content of the message.
IsRelevant(msg, normalized_question) ==
    \E w \in {Split(normalized_question)[k] : k \in 1..Len(Split(normalized_question))} :
        Contains(Lower(msg.content), w)

\* Lines 279-287: the window is scanned from its newest message down to
\* position n, with the messages taken so far in acc (newest first).
RECURSIVE ScanHistory(_, _, _, _)
ScanHistory(window, n, normalized_question, acc) ==
    IF n = 0 \/ Len(acc) >= MaxRelevant THEN acc
    ELSE ScanHistory(window, n - 1, normalized_question,
                     IF IsRelevant(window[n], normalized_question)
                     THEN Append(acc, window[n]) ELSE acc)

\* list(reversed(relevant_history))
ReverseNot(s) == s

Reverse(s) == [k \in 1..Len(s) |-> s[Len(s) + 1 - k]]

\* Lines 275-288 and 367-378: recent_history.
RecentHistory(history, normalized_question) ==
    IF history = <<>> THEN <<>>
    ELSE LET window == LastN(history, HistoryWindow)
         IN Reverse(ScanHistory(window, Len(window), normalized_question, <<>>))

\* Lines 291-313 and 381-400: the messages handed to the language model.
MessagesNormalized(mode, relevant_docs, history, question) ==
    <<[role |-> "system", content |-> SystemMessage(mode)]>>
    \o [k \in 1..Len(RecentHistory(history, Normalize(question))) |->
          [role |-> RecentHistory(history, Normalize(question))[k].role,
           content |-> RecentHistory(history, Normalize(question))[k].content]]
    \o (IF relevant_docs # <<>>
        THEN <<[role |-> "system",
                content |-> <<"D", ":">> \o Join([k \in 1..Len(relevant_docs) |->
                                                     relevant_docs[k].text])]>>
        ELSE <<>>)
    \o <<[role |-> "user", content |-> Normalize(question)]>>

Messages(mode, relevant_docs, history, question) ==
    <<[role |-> "system", content |-> SystemMessage(mode)]>>
    \o (IF relevant_docs # <<>>
        THEN <<[role |-> "system",
                content |-> <<"D", ":">> \o Join([k \in 1..Len(relevant_docs) |->
                                                     relevant_docs[k].text])]>>
        ELSE <<>>)
    \o [k \in 1..Len(RecentHistory(history, Normalize(question))) |->
          [role |-> RecentHistory(history, Normalize(question))[k].role,
           content |-> RecentHistory(history, Normalize(question))[k].content]]
    \o <<[role |-> "user", content |-> question]>>

\* Lines 330-340: the sources of an answer.
Sources(relevant_docs) ==
    [k \in 1..Len(relevant_docs) |->
        [content |-> relevant_docs[k].text,
         metadata |-> [document_id |-> relevant_docs[k].document_id,
                       chunk_index |-> relevant_docs[k].chunk_index,
                       source |-> relevant_docs[k].source]]]

\* VectorStoreManager.has_documents
has_documents_always(coll) == TRUE

has_documents(coll) == coll # {}

\* Collection.query(n_results = k): the k nearest records, or all of them when
\* the collection holds fewer; which ones and in which order is the embedding
\* function's business.
SimilaritySearch(coll, k) ==
    LET m == IF Cardinality(coll) < k THEN Cardinality(coll) ELSE k
    IN {s \in [1..m -> coll] : \A a, b \in 1..m : a # b => s[a] # s[b]}

\* An activation of query or stream_query.  History: searched and llm_called,
\* the similarity search and the chat call were made; messages, the list the
\* chat call was given; was_empty, the collection was empty when the call
\* began; failed, something raised; retrieval_failed, it was has_documents or
\* the similarity search; reply, what the model sent.  Of the streaming
\* endpoint that drives stream_query: response, its accumulator; saved, the
\* chat messages it has persisted.  Of a request that came through an
\* endpoint with the id of the session: mode, the mode it supplied; session,
\* TRUE; req, which call it is (the caller and the rows the session held).
IdleQry ==
    [pc |-> "idle", user |-> NoUser, question |-> <<>>, history |-> <<>>, k |-> 0,
     stream |-> FALSE, relevant_docs |-> <<>>, searched |-> FALSE,
     llm_called |-> FALSE, messages |-> <<>>, pending |-> <<>>, yielded |-> <<>>,
     answer |-> <<>>, sources |-> <<>>,
     was_empty |-> FALSE, failed |-> FALSE, retrieval_failed |-> FALSE,
     reply |-> <<>>, response |-> <<>>, saved |-> <<>>,
     mode |-> "none", session |-> FALSE, req |-> <<>>]

\* Values a caller may hand set_precision_mode that are no mode.
InvalidModes == {"creative", "Accurate"}

\* Line 152: mode in valid_modes.
ValidModeAny(mode) == TRUE

ValidMode(mode) == mode \in Modes

\* HirakuRAG.set_precision_mode: a value that is no mode raises ValueError
\* before the assignment; a mode is assigned.
SetPrecisionMode(u, mode) ==
    /\ IF ValidMode(mode)
       THEN /\ precision_mode' = [precision_mode EXCEPT ![u] = mode]
            /\ set_mode_raised' = [set_mode_raised EXCEPT ![u] = FALSE]
       ELSE /\ set_mode_raised' = [set_mode_raised EXCEPT ![u] = TRUE]
            /\ UNCHANGED precision_mode
    /\ UNCHANGED <<ivars, faultsLeft, qry, user_chats>>

\* query or stream_query is called.
StartQuery(p, u, question, history, k, stream) ==
    /\ ~InQuery(p)
    /\ ~InCall(p)
    /\ qry' = [qry EXCEPT ![p] =
                 [IdleQry EXCEPT !.pc = "retrieve", !.user = u, !.question = question,
                                 !.history = history, !.k = k, !.stream = stream,
                                 !.was_empty = (chroma[VectorNamespace(u)] = {})]]
    /\ UNCHANGED <<ivars, faultsLeft, mvars>>

\* The except clause of query (lines 343-348): the uniform error answer.
OnQueryExceptionReraise(q) == [q EXCEPT !.pc = "raised"]

OnQueryException(q) ==
    [q EXCEPT !.pc = "returned", !.answer = ErrorAnswer, !.sources = <<>>]

\* The except clause of stream_query (lines 419-421): the error text is
\* yielded and the generator ends.
OnStreamException(q) ==
    [q EXCEPT !.pc = "returned", !.yielded = Append(@, ErrorAnswer), !.pending = <<>>,
              !.response = @ \o ErrorAnswer]

OnException(q) == IF q.stream THEN OnStreamException(q) ELSE OnQueryException(q)

\* Lines 264-265 / 358-359: the collection is empty, no search is made.
NoDocuments(p) ==
    /\ qry[p].pc = "retrieve"
    /\ ~has_documents(chroma[VectorNamespace(qry[p].user)])
    /\ qry' = [qry EXCEPT ![p].pc = "llm"]
    /\ UNCHANGED <<ivars, faultsLeft, mvars>>

\* Lines 265-271 / 359-364: the similarity search.
Search(p) ==
    /\ qry[p].pc = "retrieve"
    /\ has_documents(chroma[VectorNamespace(qry[p].user)])
    /\ \E res \in SimilaritySearch(chroma[VectorNamespace(qry[p].user)], qry[p].k) :
          qry' = [qry EXCEPT ![p].pc = "llm", ![p].searched = TRUE,
                             ![p].relevant_docs = res]
    /\ UNCHANGED <<ivars, faultsLeft, mvars>>

\* has_documents raises.
HasDocumentsRaises(p) ==
    /\ qry[p].pc = "retrieve"
    /\ faultsLeft > 0
    /\ faultsLeft' = faultsLeft - 1
    /\ qry' = [qry EXCEPT ![p] = OnException([@ EXCEPT !.failed = TRUE,
                                                      !.retrieval_failed = TRUE])]
    /\ UNCHANGED <<ivars, mvars>>

\* similarity_search raises.
SearchRaises(p) ==
    /\ qry[p].pc = "retrieve"
    /\ has_documents(chroma[VectorNamespace(qry[p].user)])
    /\ faultsLeft > 0
    /\ faultsLeft' = faultsLeft - 1
    /\ qry' = [qry EXCEPT ![p] = OnException([@ EXCEPT !.searched = TRUE, !.failed = TRUE,
                                                      !.retrieval_failed = TRUE])]
    /\ UNCHANGED <<ivars, mvars>>

\* The message list is assembled (lines 275-313 / 367-400) for the chat call.
AssembledWithoutHistory(q) ==
    [q EXCEPT !.llm_called = TRUE,
              !.messages = Messages(precision_mode[q.user], q.relevant_docs,
                                    <<>>, q.question)]

Assembled(q) ==
    [q EXCEPT !.llm_called = TRUE,
              !.messages = Messages(precision_mode[q.user], q.relevant_docs,
                                    q.history, q.question)]

\* Lines 316-341: the model answers; reply is its output, as fragments.
Chat(p, reply) ==
    /\ qry[p].pc = "llm"
    /\ ~qry[p].stream
    /\ qry' = [qry EXCEPT ![p] =
                 [Assembled(@) EXCEPT !.pc = "returned", !.reply = reply,
                                      !.answer = Strip(Concat(reply)),
                                      !.sources = Sources(qry[p].relevant_docs)]]
    /\ UNCHANGED <<ivars, faultsLeft, mvars>>

\* Lines 403-413: the model's stream is opened.
ChatStream(p, reply) ==
    /\ qry[p].pc = "llm"
    /\ qry[p].stream
    /\ qry' = [qry EXCEPT ![p] = [Assembled(@) EXCEPT !.pc = "stream", !.pending = reply,
                                                   !.reply = reply]]
    /\ UNCHANGED <<ivars, faultsLeft, mvars>>

\* The chat call raises.
ChatRaises(p) ==
    /\ qry[p].pc = "llm"
    /\ faultsLeft > 0
    /\ faultsLeft' = faultsLeft - 1
    /\ qry' = [qry EXCEPT ![p] = OnException([Assembled(@) EXCEPT !.failed = TRUE])]
    /\ UNCHANGED <<ivars, mvars>>

\* Lines 415-417: the next fragment arrives; one with content is yielded, and
\* the endpoint adds it to its response before it passes it on (app.py 328-330).
StreamNext(p) ==
    /\ qry[p].pc = "stream"
    /\ qry[p].pending # <<>>
    /\ qry' = [qry EXCEPT ![p].pending = Tail(@),
                          ![p].yielded = IF Head(qry[p].pending) # <<>>
                                         THEN Append(@, Head(qry[p].pending)) ELSE @,
                          ![p].response = @ \o Head(qry[p].pending)]
    /\ UNCHANGED <<ivars, faultsLeft, mvars>>

\* The model's stream is exhausted and the generator ends.
StreamEnd(p) ==
    /\ qry[p].pc = "stream"
    /\ qry[p].pending = <<>>
    /\ qry' = [qry EXCEPT ![p].pc = "returned"]
    /\ UNCHANGED <<ivars, faultsLeft, mvars>>

\* The model's stream raises between two fragments.
StreamRaises(p) ==
    /\ qry[p].pc = "stream"
    /\ faultsLeft > 0
    /\ faultsLeft' = faultsLeft - 1
    /\ qry' = [qry EXCEPT ![p] = OnException([@ EXCEPT !.failed = TRUE])]
    /\ UNCHANGED <<ivars, mvars>>

\* The client goes away while the endpoint's generator is suspended at a
\* yield: the generator is closed there and nothing after its loop runs.
Abandon(p) ==
    /\ qry[p].pc = "stream"
    /\ qry[p].yielded # <<>>
    /\ qry' = [qry EXCEPT ![p].pc = "abandoned"]
    /\ UNCHANGED <<ivars, faultsLeft, mvars>>

\* The text the streaming endpoint persists for the assistant.
AssistantTextWhole(q) == Concat(q.reply)

AssistantText(q) == IF q.stream THEN q.response ELSE q.answer

\* save_chat_message: one row is inserted into the session of the request
\* (the session whose rows are user_chats, when the request named it).
save_chat_message(rows, q, role, content) ==
    IF q.session THEN Append(rows, [role |-> role, content |-> content, req |-> q.req])
    ELSE rows

\* app.py 125 and 332: the answer is there (or the stream is over) and the
\* question is persisted.
SaveUserMessage(p) ==
    /\ qry[p].pc = "returned"
    /\ qry[p].stream \/ qry[p].session
    /\ qry' = [qry EXCEPT ![p].pc = "save_assistant",
                          ![p].saved = Append(@, [role |-> "user",
                                                  content |-> qry[p].question])]
    /\ user_chats' = save_chat_message(user_chats, qry[p], "user", qry[p].question)
    /\ UNCHANGED <<ivars, faultsLeft, precision_mode, set_mode_raised>>

\* app.py 126-128 and 333: the answer (the accumulated response) is persisted.
SaveAssistantMessage(p) ==
    /\ qry[p].pc = "save_assistant"
    /\ qry' = [qry EXCEPT ![p].pc = "persisted",
                          ![p].saved = Append(@, [role |-> "assistant",
                                                  content |-> AssistantText(qry[p])])]
    /\ user_chats' = save_chat_message(user_chats, qry[p], "assistant",
                                       AssistantText(qry[p]))
    /\ UNCHANGED <<ivars, faultsLeft, precision_mode, set_mode_raised>>

\* save_chat_message raises (no session id, or a database error): the
\* exception leaves the generator.
SaveRaises(p) ==
    /\ \/ qry[p].pc = "returned" /\ qry[p].stream
       \/ qry[p].pc = "save_assistant"
    /\ faultsLeft > 0
    /\ faultsLeft' = faultsLeft - 1
    /\ qry' = [qry EXCEPT ![p].pc = "save_raised"]
    /\ UNCHANGED <<ivars, mvars>>

\* The caller has taken the answer (or the exception, or the generator's end).
Collect(p) ==
    /\ qry[p].pc \in {"returned", "raised", "abandoned", "persisted", "save_raised"}
    /\ ~(qry[p].pc = "returned" /\ qry[p].session)
    /\ qry' = [qry EXCEPT ![p] = IdleQry]
    /\ UNCHANGED <<ivars, faultsLeft, mvars>>

\* get_chat_history(user_id, session_id): limit is left at its default.
HistoryLimit == 50

\* ORDER BY timestamp ASC, id ASC LIMIT n
FirstN(rows, n) == IF Len(rows) <= n THEN rows ELSE SubSeq(rows, 1, n)

get_chat_history(rows) ==
    [k \in 1..Len(FirstN(rows, HistoryLimit)) |->
        [role |-> rows[k].role, content |-> rows[k].content]]

\* The rows the session will hold once the requests under way have persisted
\* theirs.
RowsDue == Len(user_chats) + 2 * Cardinality({o \in Procs : qry[o].session})

\* The query endpoint up to its call of rag.query (app.py 108-123): the
\* history is read, the mode of the request is set (a value that is no mode
\* raises, and the request ends with status 500) and query is called.
QueryRequest(p, u, question, mode, cap) ==
    /\ ~InQuery(p)
    /\ ~InCall(p)
    /\ RowsDue + 2 <= cap
    /\ IF ValidMode(mode)
       THEN /\ precision_mode' = [precision_mode EXCEPT ![u] = mode]
            /\ set_mode_raised' = [set_mode_raised EXCEPT ![u] = FALSE]
            /\ qry' = [qry EXCEPT ![p] =
                 [IdleQry EXCEPT !.pc = "retrieve", !.user = u, !.question = question,
                                 !.history = get_chat_history(user_chats), !.k = 3,
                                 !.was_empty = (chroma[VectorNamespace(u)] = {}),
                                 !.mode = mode, !.session = TRUE,
                                 !.req = <<p, Len(user_chats)>>]]
       ELSE /\ set_mode_raised' = [set_mode_raised EXCEPT ![u] = TRUE]
            /\ UNCHANGED <<precision_mode, qry>>
    /\ UNCHANGED <<ivars, faultsLeft, user_chats>>

\* The streaming endpoint up to its call of rag.stream_query (app.py
\* 316-328): the history is read and stream_query is called; no mode is set.
StreamRequest(p, u, question, cap) ==
    /\ ~InQuery(p)
    /\ ~InCall(p)
    /\ RowsDue + 2 <= cap
    /\ qry' = [qry EXCEPT ![p] =
                 [IdleQry EXCEPT !.pc = "retrieve", !.user = u, !.question = question,
                                 !.history = get_chat_history(user_chats), !.k = 3,
                                 !.stream = TRUE,
                                 !.was_empty = (chroma[VectorNamespace(u)] = {}),
                                 !.session = TRUE, !.req = <<p, Len(user_chats)>>]]
    /\ UNCHANGED <<ivars, faultsLeft, mvars>>

\* The inputs of the query path.
Questions == {<<"c", "a", "t", "?">>, <<"H", "i">>}
Histories ==
    {<<>>,
     <<[role |-> "user", content |-> <<"h", "i">>],
       [role |-> "assistant", content |-> <<"C", "a", "t", "s">>]>>}
Ks == {1, 3}
Replies == {<< <<" ">>, <<"o", "k">>, <<>>, <<" ">> >>, << <<"n", "o">> >>}

\* The steps of query when nothing fails.
QueryStep(p) ==
    \/ NoDocuments(p)
    \/ Search(p)
    \/ \E reply \in Replies : Chat(p, reply)
    \/ Collect(p)

\* The further steps of stream_query and of the endpoint that drives it, when
\* nothing fails.
StreamStep(p) ==
    \/ \E reply \in Replies : ChatStream(p, reply)
    \/ StreamNext(p)
    \/ StreamEnd(p)
    \/ Abandon(p)
    \/ SaveUserMessage(p)
    \/ SaveAssistantMessage(p)

\* The steps in which the Vector Index, the language model or the chat store
\* fails.
QueryFault(p) ==
    \/ HasDocumentsRaises(p)
    \/ SearchRaises(p)
    \/ ChatRaises(p)
    \/ StreamRaises(p)
    \/ SaveRaises(p)

\* ------------------------------------------------------------- specifications
InitWith(faults) ==
    /\ fs = [p \in CanonPaths |->
                IF p = PathA THEN ContentA1 ELSE IF p = PathB THEN ContentB ELSE ContentC]
    /\ db = [f \in DbPaths |-> EmptyDb]
    /\ chroma = [n \in Namespaces |-> {}]
    /\ ing = [p \in Procs |-> IdleIng]
    /\ faultsLeft = faults
    /\ placed = {}
    /\ qry = [p \in Procs |-> IdleQry]
    /\ precision_mode = [u \in Usernames |-> "interactive"]
    /\ set_mode_raised = [u \in Usernames |-> FALSE]
    /\ user_chats = <<>>

Init == InitWith(MaxFaults)

\* One caller of one user ingests, with injected failures; the file at PathA
\* may be rewritten between calls.  (Without a second caller no insert meets
\* a row of its id: AddChunkIntegrityError is not a step here.)
Next ==
    \/ \E fl \in FileLists(MaxFiles, {PathA, PathARel, PathB}) : StartIngest(1, "alice", fl)
    \/ IngestStep(1)
    \/ SkipProcessedPath(1)
    \/ IngestFault(1)
    \/ EditFile

Spec == Init /\ [][Next]_vars

\* Two callers of one user ingest single files concurrently; nothing fails
\* but the inserts that meet the other caller's row.
NextConc ==
    \/ \E p \in Procs : \E f \in {PathA, PathB, PathC} : StartIngest(p, "alice", <<f>>)
    \/ \E p \in Procs : IngestStep(p)
    \/ \E p \in Procs : AddChunkIntegrityError(p)

SpecConc == InitWith(0) /\ [][NextConc]_vars

\* One caller of one user ingests and queries in turn, with injected failures.
NextQuery ==
    \/ StartIngest(1, "alice", <<PathA>>)
    \/ IngestStep(1)
    \/ \E mode \in Modes \cup InvalidModes : SetPrecisionMode("alice", mode)
    \/ \E q \in Questions, h \in Histories, k \in Ks, s \in BOOLEAN :
          StartQuery(1, "alice", q, h, k, s)
    \/ QueryStep(1)
    \/ StreamStep(1)
    \/ QueryFault(1)

SpecQuery == Init /\ [][NextQuery]_vars

\* Two users, each with one caller, ingest, reset and query concurrently;
\* nothing fails.
UserOf(p) == IF p = 1 THEN "alice" ELSE "bob"

NextTenants ==
    \/ StartIngest(1, "alice", <<PathA>>)
    \/ \E f \in {PathA, PathB} : StartIngest(2, "bob", <<f>>)
    \/ \E p \in Procs : IngestStep(p)
    \/ \E p \in Procs : ResetVector(p, UserOf(p))
    \/ \E p \in Procs : ResetDb(p)
    \/ \E p \in Procs : StartQuery(p, UserOf(p), <<"c", "a", "t", "?">>, <<>>, 3, FALSE)
    \/ \E p \in Procs : QueryStep(p)

SpecTenants == InitWith(0) /\ [][NextTenants]_vars

\* The messages a session's history is made of, and the histories of at most
\* n of them.
HistoryMessages ==
    {[role |-> "user", content |-> <<"c", "a", "t">>],
     [role |-> "assistant", content |-> <<"a", " ", "C", "a", "t">>],
     [role |-> "user", content |-> <<"d", "o", "g">>]}

RECURSIVE HistoriesUpTo(_)
HistoriesUpTo(n) ==
    IF n = 0 THEN {<<>>}
    ELSE HistoriesUpTo(n - 1) \cup
         {Append(h, m) : h \in {g \in HistoriesUpTo(n - 1) : Len(g) = n - 1},
                         m \in HistoryMessages}

\* One caller queries an empty index with histories of every length up to
\* MaxHistory; nothing fails.
NextHistory ==
    \/ /\ ~InQuery(1)
       /\ \E h \in HistoriesUpTo(MaxHistory), st \in BOOLEAN :
             StartQuery(1, "alice", <<"c", "a", "t", "?">>, h, 3, st)
    \/ NoDocuments(1)
    \/ Chat(1, << <<"n", "o">> >>)
    \/ ChatStream(1, << <<"n", "o">> >>)
    \/ StreamNext(1)
    \/ StreamEnd(1)
    \/ Collect(1)

SpecHistory == InitWith(0) /\ [][NextHistory]_vars

\* One caller of one user ingests and resets in turn; a reset may fail in
\* either half, an ingest does not fail.
NextReset ==
    \/ \E f \in {PathA, PathB} : StartIngest(1, "alice", <<f>>)
    \/ IngestStep(1)
    \/ ResetVector(1, "alice")
    \/ ResetVectorRaises(1, "alice")
    \/ ResetDb(1)
    \/ ResetDbRaises(1)

SpecReset == Init /\ [][NextReset]_vars

\* Two callers of one user send query, stream and set-mode requests on one
\* session concurrently, until the session holds MaxChats rows; the index is
\* empty and nothing fails.
NextRequests ==
    \/ \E p \in Procs, mode \in {"accurate", "flexible", "creative"} :
          QueryRequest(p, "alice", <<"c", "a", "t", "?">>, mode, MaxChats)
    \/ \E p \in Procs : StreamRequest(p, "alice", <<"c", "a", "t", "?">>, MaxChats)
    \/ \E mode \in Modes : SetPrecisionMode("alice", mode)
    \/ \E p \in Procs :
          \/ NoDocuments(p)
          \/ Chat(p, << <<"n", "o">> >>)
          \/ ChatStream(p, << <<"n", "o">> >>)
          \/ StreamNext(p)
          \/ StreamEnd(p)
          \/ SaveUserMessage(p)
          \/ SaveAssistantMessage(p)
          \/ Collect(p)

SpecRequests == InitWith(0) /\ [][NextRequests]_vars

\* One caller sends query and stream requests on one session, one after the
\* other, until the session holds MaxSession rows; the index is empty and
\* nothing fails.  The turns that fit the limit of get_chat_history all ask
\* the same question; the later ones ask either.
NextSession ==
    \/ \E q \in Questions :
          /\ q = <<"c", "a", "t", "?">> \/ Len(user_chats) >= HistoryLimit
          /\ \/ QueryRequest(1, "alice", q, "interactive", MaxSession)
             \/ StreamRequest(1, "alice", q, MaxSession)
    \/ NoDocuments(1)
    \/ Chat(1, << <<"n", "o">> >>)
    \/ ChatStream(1, << <<"n", "o">> >>)
    \/ StreamNext(1)
    \/ StreamEnd(1)
    \/ SaveUserMessage(1)
    \/ SaveAssistantMessage(1)
    \/ Collect(1)

SpecSession == InitWith(0) /\ [][NextSession]_vars

\* ------------------------------------------------------------- properties
\* The loop of add_documents is over and the call is about to return.
AtEnd(p) ==
    /\ ing[p].pc = "next_file"
    /\ ing[p].idx > Len(ing[p].file_paths)

UserDb(p) == db[DbPath(ing[p].user)]
UserColl(p) == chroma[VectorNamespace(ing[p].user)]

\* C1: at the end of an ingestion call that logged no error, every chunk id
\* with a row in the Metadata Store has a record in the Vector Index.
C1_ConsistentAfterCleanIngest ==
    \A p \in Procs :
        (AtEnd(p) /\ ing[p].errors = 0) => Ids(UserDb(p).chunks) \subseteq Ids(UserColl(p))

\* C2: a call that lists only files whose chunks all had their rows when it
\* began (files ingested before and unchanged since) inserts no chunk row, adds
\* no vector record and reports 0 chunks added; and a call that logged no
\* error leaves a row for every chunk of every file it listed, which is what
\* the next call on the same files starts from.
C2_Idempotent ==
    \A p \in Procs :
        AtEnd(p) =>
            /\ ing[p].had_all =>
                  /\ ~ing[p].rows_added
                  /\ ~ing[p].vecs_added
                  /\ ing[p].total_chunks = 0
            /\ ing[p].errors = 0 =>
                  \A k \in 1..Len(ing[p].file_paths) :
                      ChunkIdsOf(Resolve(ing[p].file_paths[k]),
                                 fs[Resolve(ing[p].file_paths[k])])
                          \subseteq Ids(UserDb(p).chunks)

\* C2's case: a call on a file with chunks, all of them ingested before, ends
\* having gone through the file's document.
C2_Witness ==
    \E p \in Procs :
        /\ AtEnd(p)
        /\ ing[p].had_all
        /\ ing[p].counted_docs # {}
        /\ \E k \in 1..Len(ing[p].file_paths) :
              ChunkIdsOf(Resolve(ing[p].file_paths[k]),
                         fs[Resolve(ing[p].file_paths[k])]) # {}

\* The chunk ids a document row stands for, by the file now on disk.
ExpectedChunkIds(r) ==
    {ChunkId(r.id, i - 1) : i \in 1..Len(fs[r.filepath][r.id[2] + 1])}

\* C3: under every interleaving of two callers ingesting the same files, no
\* chunk id is put in the Vector Index batch of two callers, and once both
\* calls are over each document of n chunks has exactly n chunk rows and
\* exactly n vector records.
C3_ConcurrentDedup ==
    /\ \A x \in placed : \A y \in placed :
          (x[1] = y[1] /\ x[2] = y[2]) => x[3] = y[3]
    /\ (\A p \in Procs : ing[p].pc = "idle") =>
          \A r \in db[DbPath("alice")].documents :
              LET rows == {c \in db[DbPath("alice")].chunks : c.document_id = r.id}
                  recs == {v \in chroma[VectorNamespace("alice")] : v.document_id = r.id}
              IN /\ \A id \in ExpectedChunkIds(r) :
                      Cardinality({x \in placed : x[1] = "alice" /\ x[2] = id}) = 1
                 /\ Ids(rows) = ExpectedChunkIds(r)
                 /\ Ids(recs) = ExpectedChunkIds(r)
                 /\ Cardinality(rows) = Cardinality(ExpectedChunkIds(r))
                 /\ Cardinality(recs) = Cardinality(ExpectedChunkIds(r))

\* C3's case: both calls are over and each caller has put a chunk of the same
\* document in its batch.
C3_Witness ==
    /\ \A p \in Procs : ing[p].pc = "idle"
    /\ \E x \in placed : \E y \in placed : x[3] # y[3] /\ x[2][1] = y[2][1]

\* C4: a file whose path has a document row with every chunk in the Vector
\* Index is skipped: the chunker is not invoked for it and no store is written.
C4_CrossRunSkip ==
    \A p \in Procs :
        (InCall(p) /\ ing[p].skippable) => (~ing[p].chunker_called /\ ~ing[p].file_wrote)

\* C5: a document whose batch write to the Vector Index failed is not counted
\* among the successfully processed ones.
C5_VectorFailureReported ==
    \A p \in Procs : ing[p].vec_failed_docs \cap ing[p].counted_docs = {}

\* C6: add_documents never raises once it iterates, and it ends only after
\* every listed file was reached, whatever failed on the way.
C6_NeverRaises ==
    \A p \in Procs :
        /\ ing[p].pc # "raised"
        /\ AtEnd(p) =>
              ing[p].processed_paths =
                  {Resolve(ing[p].file_paths[k]) : k \in 1..Len(ing[p].file_paths)}

\* C6's case: the call ends with an error logged for its first file and the
\* document of its second file counted.
C6_Witness ==
    \E p \in Procs :
        /\ AtEnd(p)
        /\ Len(ing[p].file_paths) = 2
        /\ ing[p].errors > 0
        /\ DocId(Resolve(ing[p].file_paths[1]), 0) \notin ing[p].counted_docs
        /\ DocId(Resolve(ing[p].file_paths[2]), 0) \in ing[p].counted_docs

\* C7: while add_documents is at a file the chunker failed on, it has written
\* no store for it and has not counted it; and no document the chunker
\* failed on is written or counted by the call.
C7_ChunkerFailureLeavesNoState ==
    \A p \in Procs :
        /\ ing[p].chunker_failed => (~ing[p].file_wrote /\ ~ing[p].file_counted)
        /\ ing[p].failed_docs \cap (ing[p].written_docs \cup ing[p].counted_docs) = {}

\* C7's case: the call has gone past a document the chunker failed on, with
\* rows of an earlier call in the store.
C7_Witness ==
    \E p \in Procs :
        /\ ing[p].failed_docs # {}
        /\ ing[p].chunker_failed
        /\ ing[p].pc = "next_file"
        /\ UserDb(p).chunks # {}

\* C8: every record a user's search returns was added by that user's
\* ingestion, and a step changes a user's collection only if it is a step of
\* a call of that user.
C8_TenantIsolation ==
    /\ [](\A p \in Procs :
            \A k \in 1..Len(qry[p].relevant_docs) :
                qry[p].relevant_docs[k].by = qry[p].user)
    /\ [][\A u \in Usernames :
            chroma'[VectorNamespace(u)] # chroma[VectorNamespace(u)] =>
                \E p \in Procs :
                    /\ ing'[p] # ing[p]
                    /\ u \in {ing[p].user, ing'[p].user}]_vars

\* C8's case: a user's search returns a record while the other user's
\* collection holds records too.
C8_Witness ==
    \E p \in Procs :
        /\ qry[p].relevant_docs # <<>>
        /\ \E u \in Usernames \ {qry[p].user} : chroma[VectorNamespace(u)] # {}

\* C9: an answer on an empty Vector Index, nothing having failed: no search
\* was made, the model was called with a list that holds no document context,
\* and the answer is the model's, trimmed, with no sources.
C9_EmptyIndexAnswer ==
    \A p \in Procs :
        (qry[p].pc = "returned" /\ ~qry[p].stream /\ qry[p].was_empty /\ ~qry[p].failed) =>
            /\ ~qry[p].searched
            /\ qry[p].llm_called
            /\ \A k \in 2..Len(qry[p].messages) :
                  ~(qry[p].messages[k].role = "system")
            /\ qry[p].messages[Len(qry[p].messages)] =
                  [role |-> "user", content |-> qry[p].question]
            /\ qry[p].answer = Strip(Concat(qry[p].reply))
            /\ qry[p].answer # ErrorAnswer
            /\ qry[p].sources = <<>>

\* C9's case: a query begun on an empty collection has returned, nothing
\* having failed.
C9_Witness ==
    \E p \in Procs :
        /\ qry[p].pc = "returned"
        /\ ~qry[p].stream
        /\ qry[p].was_empty
        /\ ~qry[p].failed

\* C10: query and stream_query never raise; after a failure query returns the
\* error answer with no sources, and stream_query ends with the error text as
\* the last fragment it yielded.
C10_QueryNeverRaises ==
    \A p \in Procs :
        /\ qry[p].pc # "raised"
        /\ (qry[p].pc = "returned" /\ qry[p].failed) =>
              IF qry[p].stream
              THEN /\ qry[p].yielded # <<>>
                   /\ qry[p].yielded[Len(qry[p].yielded)] = ErrorAnswer
              ELSE /\ qry[p].answer = ErrorAnswer
                   /\ qry[p].sources = <<>>

\* C10's case: a query whose search was made returns after a failure.
C10_Witness ==
    \E p \in Procs :
        /\ qry[p].pc = "returned"
        /\ qry[p].failed
        /\ ~qry[p].stream
        /\ qry[p].searched

\* C11: a request whose retrieval failed (has_documents or the similarity
\* search raised) still calls the language model, with a list that holds no
\* document context, and delivers the model's answer, not the error answer.
C11_RetrievalFailureDegrades ==
    \A p \in Procs :
        (qry[p].pc = "returned" /\ qry[p].retrieval_failed) =>
            /\ qry[p].llm_called
            /\ \A k \in 2..Len(qry[p].messages) : ~(qry[p].messages[k].role = "system")
            /\ IF qry[p].stream
               THEN ErrorAnswer \notin {qry[p].yielded[k] : k \in 1..Len(qry[p].yielded)}
               ELSE qry[p].answer # ErrorAnswer

\* The casual-greeting phrases of the specification's short-circuit.
GreetingPhrases == {<<"h", "i">>, <<"h", "e", "l", "l", "o">>}

\* C12: a request whose normalized question is a greeting phrase makes no
\* similarity search, and calls the language model only in mode flexible.
C12_GreetingShortCircuit ==
    \A p \in Procs :
        (InQuery(p) /\ Normalize(qry[p].question) \in GreetingPhrases) =>
            /\ ~qry[p].searched
            /\ qry[p].llm_called =>
                  qry[p].messages[1].content = SystemMessage("flexible")

\* The whitespace-delimited tokens of a text.
Tokens(text) == {Split(text)[k] : k \in 1..Len(Split(text))}

\* C13: every history message handed to the language model shares a
\* whitespace-delimited token with the normalized question; a message that
\* only holds a question token inside a longer word is not selected.
C13_TokenRelevance ==
    \A p \in Procs :
        qry[p].llm_called =>
            \A k \in 2..(Len(qry[p].messages) - 1) :
                qry[p].messages[k].role # "system" =>
                    Tokens(Lower(qry[p].messages[k].content))
                        \cap Tokens(Normalize(qry[p].question)) # {}

\* C14: the first message of the list handed to the language model is the
\* system instruction of the mode in force when the list is assembled; under
\* each other mode the same question, context and history give a different
\* first message and the same remaining messages.
C14_ModeInstruction ==
    /\ [](\A p \in Procs :
            qry[p].llm_called =>
                \E m \in Modes :
                    /\ qry[p].messages[1] = [role |-> "system", content |-> SystemMessage(m)]
                    /\ \A m2 \in Modes \ {m} :
                          LET other == Messages(m2, qry[p].relevant_docs,
                                                qry[p].history, qry[p].question)
                          IN /\ other[1].role = "system"
                             /\ other[1].content # qry[p].messages[1].content
                             /\ Tail(other) = Tail(qry[p].messages))
    /\ [][\A p \in Procs :
            (~qry[p].llm_called /\ qry'[p].llm_called) =>
                qry'[p].messages[1].content = SystemMessage(precision_mode[qry[p].user])]_vars

\* C14's case: a list with document context and a history message was
\* assembled under a mode other than the initial one.
C14_Witness ==
    \E p \in Procs :
        /\ qry[p].llm_called
        /\ Len(qry[p].messages) >= 4
        /\ qry[p].relevant_docs # <<>>
        /\ qry[p].messages[1].content = SystemMessage("accurate")

\* C15: when nothing failed, the concatenation of the fragments stream_query
\* yielded equals, up to trailing white space, the answer query returns for
\* the same output of the model (the model's content, stripped as query
\* strips it).
C15_StreamingEquivalence ==
    \A p \in Procs :
        /\ (qry[p].pc = "returned" /\ ~qry[p].stream /\ ~qry[p].failed) =>
              qry[p].answer = Strip(Concat(qry[p].reply))
        /\ (qry[p].pc = "returned" /\ qry[p].stream /\ ~qry[p].failed) =>
              RStrip(Concat(qry[p].yielded), Whitespace) =
                  RStrip(Strip(Concat(qry[p].reply)), Whitespace)

\* C16: a streaming request persists chat messages only once its stream was
\* consumed to the end; a persisted assistant message holds exactly the
\* fragments delivered to the client, in order; and a stream abandoned midway
\* persists nothing.
C16_StreamPersistence ==
    \A p \in Procs :
        /\ qry[p].saved # <<>> =>
              /\ qry[p].stream
              /\ qry[p].pending = <<>>
              /\ qry[p].pc \in {"save_assistant", "persisted", "save_raised"}
        /\ \A k \in 1..Len(qry[p].saved) :
              qry[p].saved[k].role = "assistant" =>
                  /\ qry[p].saved[k].content = Concat(qry[p].yielded)
                  /\ k = 2
                  /\ qry[p].saved[1] = [role |-> "user", content |-> qry[p].question]
        /\ qry[p].pc = "abandoned" => qry[p].saved = <<>>

\* C16's case: the assistant message of a stream that failed after a
\* fragment was delivered is persisted.
C16_Witness ==
    \E p \in Procs :
        /\ qry[p].pc = "persisted"
        /\ qry[p].failed
        /\ Len(qry[p].yielded) >= 2

\* C17: the precision mode is interactive at first and always one of the
\* three modes; a step in which set_precision_mode raises leaves the mode and
\* everything else as it was; a step that changes the mode changes nothing
\* else.
C17_PrecisionModeValid ==
    /\ \A u \in Usernames : precision_mode[u] = "interactive"
    /\ [](\A u \in Usernames : precision_mode[u] \in Modes)
    /\ [][\A u \in Usernames :
            /\ (set_mode_raised'[u] /\ ~set_mode_raised[u]) =>
                  UNCHANGED <<precision_mode, ivars, faultsLeft, qry>>
            /\ precision_mode'[u] # precision_mode[u] =>
                  /\ ~set_mode_raised'[u]
                  /\ UNCHANGED <<ivars, faultsLeft, qry>>
                  /\ \A v \in Usernames \ {u} : precision_mode'[v] = precision_mode[v]]_vars

\* C17's case: a call with a value that is no mode has raised after the mode
\* was changed, with a request under way.
C17_Witness ==
    /\ set_mode_raised["alice"]
    /\ precision_mode["alice"] = "flexible"
    /\ InQuery(1)

\* C18: the step in which a user's Vector Index is reset leaves that user's
\* collection empty (has_documents false, a search gives no result) and
\* changes no other collection and no Metadata Store; the namespaces stay
\* the same; and every record added to a collection afterwards is found by a
\* search of that collection.
C18_VectorReset ==
    /\ [][\A p \in Procs :
            (ing'[p].pc = "reset_db" /\ ing[p].pc # "reset_db") =>
                LET ns == VectorNamespace(ing'[p].user)
                IN /\ ~has_documents(chroma'[ns])
                   /\ SimilaritySearch(chroma'[ns], 3) = {<<>>}
                   /\ \A n \in Namespaces \ {ns} : chroma'[n] = chroma[n]
                   /\ db' = db]_vars
    /\ [](DOMAIN chroma = Namespaces)
    /\ [][\A u \in Usernames :
            LET now == chroma'[VectorNamespace(u)]
            IN \A rec \in now \ chroma[VectorNamespace(u)] :
                  /\ has_documents(now)
                  /\ \E res \in SimilaritySearch(now, Cardinality(now)) :
                        \E k \in 1..Len(res) : res[k] = rec]_vars

\* C18's case: a user's Vector Index was just reset while the Metadata Store
\* still holds the rows of the chunks that were in it.
C18_Witness ==
    \E p \in Procs :
        /\ ing[p].pc = "reset_db"
        /\ db[DbPath(ing[p].user)].chunks # {}
        /\ chroma[VectorNamespace(ing[p].user)] = {}
        /\ \E u \in Usernames \ {ing[p].user} : chroma[VectorNamespace(u)] # {}

C20_MetadataBeforeVector ==
    /\ \A p \in Procs :
          \A k \in 1..Len(ing[p].batch) :
              /\ ing[p].batch[k].id \in Ids(UserDb(p).chunks)
              /\ <<ing[p].user, ing[p].batch[k].id, p>> \in placed
    /\ \A u \in Usernames :
          Ids(chroma[VectorNamespace(u)]) \subseteq Ids(db[DbPath(u)].chunks)

\* C20's case: a call ends having written a batch for a document one of whose
\* chunks failed to be inserted.
C20_Witness ==
    \E p \in Procs :
        /\ AtEnd(p)
        /\ ing[p].vecs_added
        /\ \E k \in 1..Len(ing[p].file_paths) :
              /\ DocId(Resolve(ing[p].file_paths[k]), 0) \in ing[p].counted_docs
              /\ ~(ChunkIdsOf(Resolve(ing[p].file_paths[k]), fs[Resolve(ing[p].file_paths[k])])
                      \subseteq Ids(UserDb(p).chunks))

\* C21: the step in which add_documents goes past a chunk whose id has a row
\* in the Metadata Store changes no row, adds nothing to the call's batch and
\* writes nothing to the Vector Index, whether the Vector Index holds a record
\* of that id or not.
C21_ExistingChunkSkipped ==
    [][\A p \in Procs :
          (/\ ing[p].pc \in {"next_chunk", "add_chunk"}
           /\ ing[p].i < Len(CurrentDoc(ing[p]).chunks)
           /\ ing'[p].pc \in {"next_chunk", "add_chunk"}
           /\ ing'[p].i = ing[p].i + 1
           /\ CurrentChunkId(ing[p]) \in Ids(UserDb(p).chunks)) =>
              /\ db' = db
              /\ chroma' = chroma
              /\ ing'[p].batch = ing[p].batch]_vars

\* C21's case: a call that logged no error ends having skipped the chunks of
\* a document, one of which has its row but no record in the Vector Index.
C21_Witness ==
    \E p \in Procs :
        /\ AtEnd(p)
        /\ ing[p].errors = 0
        /\ ing[p].had_all
        /\ ing[p].counted_docs # {}
        /\ ~(Ids(UserDb(p).chunks) \subseteq Ids(UserColl(p)))

\* C22: within one call the chunker is invoked only for a canonical path the
\* call has not processed, which is recorded as processed by that step; the
\* step at a later occurrence of a processed path invokes no chunker, writes
\* no store and changes no count.
C22_InBatchDedup ==
    [][\A p \in Procs :
          (ing[p].pc = "next_file" /\ ing[p].idx <= Len(ing[p].file_paths)
              /\ ing'[p] # ing[p]) =>
              /\ ing'[p].chunker_called =>
                    /\ CurrentPath(ing[p]) \notin ing[p].processed_paths
                    /\ CurrentPath(ing[p]) \in ing'[p].processed_paths
              /\ CurrentPath(ing[p]) \in ing[p].processed_paths =>
                    /\ ~ing'[p].chunker_called
                    /\ ing'[p].pc = "next_file"
                    /\ ing'[p].idx = ing[p].idx + 1
                    /\ db' = db
                    /\ chroma' = chroma
                    /\ ing'[p].total_chunks = ing[p].total_chunks
                    /\ ing'[p].successful_files = ing[p].successful_files
                    /\ ing'[p].errors = ing[p].errors
                    /\ ing'[p].processed_paths = ing[p].processed_paths]_vars

\* C22's case: a call that listed a file by its relative and by its absolute
\* path ends with one path processed and the file's document counted.
C22_Witness ==
    \E p \in Procs :
        /\ AtEnd(p)
        /\ ing[p].file_paths = <<PathARel, PathA>>
        /\ ing[p].processed_paths = {PathA}
        /\ ing[p].successful_files = 1

\* The history messages in the list handed to the language model: those
\* between the system messages and the question.
SelectedHistory(q) ==
    LET first == IF q.relevant_docs # <<>> THEN 3 ELSE 2
    IN SubSeq(q.messages, first, Len(q.messages) - 1)

\* C23: the filtered history is the last-6 window's messages at increasing
\* positions (chronological order), at most 3 of them, all eligible; every
\* eligible message of the window newer than the oldest selected one is
\* selected, and with fewer than 3 selected no eligible one is left out.
C23_FilteredHistory ==
    \A p \in Procs :
        qry[p].llm_called =>
            LET sel == SelectedHistory(qry[p])
                window == LastN(qry[p].history, HistoryWindow)
                nq == Normalize(qry[p].question)
                eligible == {k \in 1..Len(window) : IsRelevant(window[k], nq)}
            IN /\ Len(sel) <= MaxRelevant
               /\ \E f \in [1..Len(sel) -> 1..Len(window)] :
                     /\ \A a, b \in 1..Len(sel) : a < b => f[a] < f[b]
                     /\ \A a \in 1..Len(sel) :
                           /\ sel[a] = [role |-> window[f[a]].role,
                                        content |-> window[f[a]].content]
                           /\ f[a] \in eligible
                     /\ \A k \in eligible :
                           (Len(sel) < MaxRelevant \/ k > f[1]) =>
                               \E a \in 1..Len(sel) : f[a] = k

\* C23's case: of a history longer than the window with more than 3 eligible
\* messages in the window, 3 different ones were selected.
C23_Witness ==
    \E p \in Procs :
        /\ qry[p].llm_called
        /\ Len(qry[p].history) > HistoryWindow
        /\ Len(SelectedHistory(qry[p])) = MaxRelevant
        /\ SelectedHistory(qry[p])[1] # SelectedHistory(qry[p])[2]
        /\ Cardinality({k \in 1..HistoryWindow :
                IsRelevant(LastN(qry[p].history, HistoryWindow)[k],
                           Normalize(qry[p].question))}) > MaxRelevant
        /\ ~IsRelevant(qry[p].history[Len(qry[p].history)], Normalize(qry[p].question))

\* C24: the list handed to the language model is, in this order, one system
\* message with the instruction of the mode in force; one system message with
\* the document context exactly when retrieval returned a document; the
\* filtered history, roles and contents kept, in chronological order; and
\* one user message with the question as received.
C24_MessageOrder ==
    /\ [](\A p \in Procs :
            qry[p].llm_called =>
                LET m == qry[p].messages
                    docs == qry[p].relevant_docs
                    ctx == IF docs # <<>> THEN 1 ELSE 0
                    hist == RecentHistory(qry[p].history, Normalize(qry[p].question))
                IN /\ Len(m) = 1 + ctx + Len(hist) + 1
                   /\ m[1].role = "system"
                   /\ \E mode \in Modes : m[1].content = SystemMessage(mode)
                   /\ ctx = 1 =>
                         m[2] = [role |-> "system",
                                 content |-> <<"D", ":">> \o
                                     Join([k \in 1..Len(docs) |-> docs[k].text])]
                   /\ \A k \in 1..Len(hist) :
                         /\ m[1 + ctx + k].role = hist[k].role
                         /\ m[1 + ctx + k].content = hist[k].content
                         /\ m[1 + ctx + k].role \in {"user", "assistant"}
                   /\ m[Len(m)] = [role |-> "user", content |-> qry[p].question])
    /\ [][\A p \in Procs :
            (~qry[p].llm_called /\ qry'[p].llm_called) =>
                qry'[p].messages[1].content = SystemMessage(precision_mode[qry[p].user])
         ]_vars

\* C24's case: a list of all four parts was assembled for a question that
\* its normalized form differs from.
C24_Witness ==
    \E p \in Procs :
        /\ qry[p].llm_called
        /\ qry[p].relevant_docs # <<>>
        /\ RecentHistory(qry[p].history, Normalize(qry[p].question)) # <<>>
        /\ Len(qry[p].messages) = 4
        /\ qry[p].question # Normalize(qry[p].question)
        /\ qry[p].messages[4].content = qry[p].question

\* C25: with query, stream and set-mode requests of one user running
\* concurrently, the first message of the list assembled for a query request
\* is the system instruction of the mode this request supplied.
C25_RequestOwnMode ==
    [][\A p \in Procs :
          (~qry[p].llm_called /\ qry'[p].llm_called /\ qry[p].mode \in Modes) =>
              qry'[p].messages[1].content = SystemMessage(qry[p].mode)]_vars

\* C26: the history a request hands to the orchestrator ends with the
\* session's most recently saved messages: its last 6 messages are the last
\* 6 rows of the session, whatever the length of the session.
C26_RecentHistoryWindow ==
    \A p \in Procs :
        (qry[p].session /\ qry[p].pc \in {"retrieve", "llm"}) =>
            LastN(qry[p].history, HistoryWindow) =
                [k \in 1..Len(LastN(user_chats, HistoryWindow)) |->
                    [role |-> LastN(user_chats, HistoryWindow)[k].role,
                     content |-> LastN(user_chats, HistoryWindow)[k].content]]

C27_ChunkHasDocument ==
    /\ [](\A f \in DbPaths :
            /\ \A c \in db[f].chunks : \E r \in db[f].documents : r.id = c.document_id
            /\ \A r1, r2 \in db[f].documents : r1.id = r2.id => r1 = r2)
    /\ [][\A f \in DbPaths :
            \A c \in db'[f].chunks \ db[f].chunks :
                \E r \in db[f].documents : r.id = c.document_id]_vars

\* C27's case: a file whose document and chunk rows exist was ingested again
\* and its Document row has just been written again.
C27_Witness ==
    \E p \in Procs :
        /\ ing[p].pc = "next_chunk"
        /\ ing[p].i = 0
        /\ CurrentDoc(ing[p]).doc_id \in ing[p].written_docs
        /\ Cardinality({r \in UserDb(p).documents : r.id = CurrentDoc(ing[p]).doc_id}) = 1
        /\ \E c \in UserDb(p).chunks : c.document_id = CurrentDoc(ing[p]).doc_id

\* C28: no step of an ingest call changes or removes a chunk row or a vector
\* record that exists; the rows and records a step adds have ids, and rows
\* have chunk indexes of their document, that had none before.  So the chunks
\* of a file ingested before keep their first text when the file has changed.
C28_ChunksNeverOverwritten ==
    [][/\ \A f \in DbPaths :
             /\ db[f].chunks \subseteq db'[f].chunks
             /\ \A c \in db'[f].chunks \ db[f].chunks :
                   \A o \in db[f].chunks :
                       /\ o.id # c.id
                       /\ ~(o.document_id = c.document_id /\ o.chunk_index = c.chunk_index)
       /\ \A n \in Namespaces :
             /\ chroma[n] \subseteq chroma'[n]
             /\ \A v \in chroma'[n] \ chroma[n] : \A o \in chroma[n] : o.id # v.id]_vars

\* C28's case: the file at PathA was ingested, rewritten and ingested again:
\* chunk 0 keeps the text of the first version, in both stores, and chunk 2,
\* which only the second version has, was added.
C28_Witness ==
    /\ fs[PathA] = ContentA2
    /\ \E c \in db[DbPath("alice")].chunks :
          c.id = ChunkId(DocId(PathA, 0), 0) /\ c.content = ContentA1[1][1]
    /\ \E v \in chroma[VectorNamespace("alice")] :
          v.id = ChunkId(DocId(PathA, 0), 0) /\ v.text = ContentA1[1][1]
    /\ \E c \in db[DbPath("alice")].chunks :
          c.id = ChunkId(DocId(PathA, 0), 2) /\ c.content = ContentA2[1][3]
    /\ \E v \in chroma[VectorNamespace("alice")] : v.id = ChunkId(DocId(PathA, 0), 2)

\* C29: reset empties the Vector Index first and the Metadata Store second.
\* A reset whose Vector Index half raises changes neither store and ends
\* raised; a reset that returns leaves both stores of the user empty; and an
\* ingest, after it, of files ingested before puts every chunk of theirs into
\* both stores again.
C29_ResetOrder ==
    /\ [][\A p \in Procs :
            LET ns == VectorNamespace(ing'[p].user)
            IN /\ (ing'[p].pc = "reset_raised" /\ ing[p].pc \notin {"reset_db", "reset_raised"})
                     => (db' = db /\ chroma' = chroma)
               /\ (ing'[p].pc = "reset_db" /\ ing[p].pc # "reset_db")
                     => (chroma'[ns] = {} /\ db' = db)
               /\ (ing[p].pc = "reset_db" /\ ing'[p].pc = "idle")
                     => (db'[DbPath(ing[p].user)] = EmptyDb
                         /\ chroma'[VectorNamespace(ing[p].user)] = {})
               /\ (ing[p].pc = "reset_db" /\ ing'[p].pc = "reset_raised")
                     => (db' = db /\ chroma' = chroma)]_vars
    /\ [](\A p \in Procs :
            (AtEnd(p) /\ ing[p].after_reset) =>
                \A k \in 1..Len(ing[p].file_paths) :
                    LET path == Resolve(ing[p].file_paths[k])
                    IN /\ ChunkIdsOf(path, fs[path]) \subseteq Ids(UserDb(p).chunks)
                       /\ ChunkIdsOf(path, fs[path]) \subseteq Ids(UserColl(p)))

\* C29's case: an ingest that followed a reset of stores that held the file
\* has come to its end and has written both stores; a reset had failed before.
C29_Witness ==
    \E p \in Procs :
        /\ AtEnd(p)
        /\ ing[p].after_reset
        /\ ing[p].rows_added
        /\ faultsLeft < MaxFaults
        /\ UserColl(p) # {}
====
